---- MODULE Spec2Model ----
(***************************************************************************)
(* doc-merger: the extraction pipeline of extract.py (download, root       *)
(* extraction, recursive unpacking, conversion, aggregation, cleanup) and  *)
(* the task bookkeeping of api_server.py, as one state machine.            *)
(*                                                                         *)
(* A file name is the sequence of its dot-separated components             *)
(* ("a.tar.gz" is <<"a","tar","gz">>, ".DS_Store" is <<"","DS_Store">>);   *)
(* a directory is the sequence of directory names below                    *)
(* temp_downloads/extracted, each directory name again a sequence of       *)
(* components, the last one "_extracted" for an extraction target.         *)
(***************************************************************************)
EXTENDS Integers, Sequences, FiniteSets, TLC

VARIABLES
    tasks,              \* api_server.tasks: task id -> record, or NoTask
    temp,               \* temp_downloads (and temp_downloads/extracted) exists
    tree,               \* the files below temp_downloads/extracted
    outdir,             \* extracted_documents: NoDir, or its files, name -> content
    taskdirs,           \* extracted_documents_<task id>, per task: the same
    pc,                 \* where the running extract_task / main stands
    cur,                \* the task id of the running extract_task (0: none)
    mode,               \* its mode, "pdf" or "txt"
    exc,                \* the exception main is unwinding with, or NoExc
    downloaded,         \* the content of temp_downloads/downloaded.zip, or NoFile
    processed_archives, \* process_archives_recursive.processed_archives
    stack,              \* the active process_directory calls, innermost last
    walk,               \* organize_documents: the files os.walk still yields
    converted_files,    \* organize_documents.converted_files
    counts,             \* organize_documents: processed_files, failed_files
    hist,               \* observations of the run, read by the properties only
    posted,             \* the number of task ids POST /extract has returned
    answer              \* the response of the last GET /status, or NoAnswer

vars == <<tasks, temp, tree, outdir, taskdirs, pc, cur, mode, exc, downloaded,
          processed_archives, stack, walk, converted_files, counts, hist,
          posted, answer>>

(***************************************************************************)
(* Bounds of the model.                                                    *)
(***************************************************************************)
MaxRuns == 2
MaxEntries == 2

(***************************************************************************)
(* Values standing for "nothing there".                                    *)
(***************************************************************************)
NoTask == [status |-> "none"]
NoDir == [exists |-> FALSE]
NoFile == [t |-> "none"]
NoExc == "none"
NoAnswer == [code |-> 0]

\* The observations of a run, empty.
NoHist ==
    [stages |-> {}, skipped |-> {}, again |-> {}, expanded |-> {}, attempted |-> <<>>,
     sources |-> <<>>, wrote |-> "none", merged |-> 0,
     download_failed |-> FALSE, root_failed |-> FALSE,
     used |-> [t \in 1..MaxRuns |-> {}]]

None == <<>>

Message(text, detail) == [text |-> text, detail |-> detail]

Processing ==
    [status |-> "processing", message |-> Message("Extracting documents...", ""),
     file_path |-> None]

\* The directory names of extract.py lines 314, 315, 339 and api_server.py line 50.
TempDir == <<"temp_downloads">>

ExtractRootDir == <<"temp_downloads", "extracted">>

OutputDir == <<"extracted_documents">>

TaskOutputDir(t) == <<"extracted_documents_", ToString(t)>>

Uses(dirs) == [hist EXCEPT !.used[cur] = @ \cup dirs]

(***************************************************************************)
(* File names and paths.                                                   *)
(***************************************************************************)
MinSize == 100

Last(s) == s[Len(s)]

Front(s) == SubSeq(s, 1, Len(s) - 1)

\* str.lower() on the extensions the model uses.
Lower(s) ==
    CASE s = "PDF" -> "pdf"
      [] s = "ZIP" -> "zip"
      [] s = "JPG" -> "jpg"
      [] OTHER -> s

\* Whether the name has a suffix in the sense of os.path.splitext and
\* pathlib: a dot that is not the leading one, with something after it.
HasSuffix(name) ==
    /\ Len(name) >= 2
    /\ Last(name) # ""
    /\ \E i \in 1..(Len(name) - 1) : name[i] # ""

\* pathlib.Path(file).suffix.lower(), without the dot ("" when there is none).
Suffix(name) == IF HasSuffix(name) THEN Lower(Last(name)) ELSE ""

\* os.path.splitext(file)[0] and pathlib.Path(file).stem.
Stem(name) == IF HasSuffix(name) THEN Front(name) ELSE name

\* file.endswith(('.zip', '.tar', '.tar.gz', '.tgz', '.rar')): case-sensitive,
\* and true of a name that is nothing but the extension.
ArchiveSuffixes == {"zip", "tar", "tgz", "rar"}

EndsWithArchiveSuffix(name) ==
    /\ Len(name) >= 2
    /\ \/ Last(name) \in ArchiveSuffixes
       \/ Len(name) >= 3 /\ name[Len(name) - 1] = "tar" /\ Last(name) = "gz"

\* f"{os.path.splitext(file)[0]}_extracted"
ExtractDirName(name) == Append(Stem(name), "_extracted")

PathOf(node) == [dir |-> node.dir, name |-> node.name]

Paths(t) == {PathOf(n) : n \in t}

Exists(t, p) == p \in Paths(t)

NodeAt(t, p) == CHOOSE n \in t : PathOf(n) = p

IsPrefix(s, t) == Len(s) <= Len(t) /\ SubSeq(t, 1, Len(s)) = s

\* The files os.walk(dir) yields: those in dir and in every directory below it.
Under(t, dir) == {n \in t : IsPrefix(dir, n.dir)}

\* filename.startswith('._')
StartsDotUnderscore(name) ==
    Len(name) >= 2 /\ name[1] = "" /\ name[2] \in {"_a", "_b", "_"}

SmallerThanMinSize(size) == size < MinSize

\* The name rules of lines 197-206 alone, without the size rule of line 210.
IsMacosSystemFileAnySize(t, p) ==
    \/ \E i \in 1..Len(p.dir) : p.dir[i] = <<"__MACOSX">>
    \/ p.name = <<"__MACOSX">>
    \/ StartsDotUnderscore(p.name)
    \/ p.name = <<"", "DS_Store">>
    \/ ~Exists(t, p)

\* is_macos_system_file(file_path) for the file that is at path p of tree t;
\* a path with no file makes os.path.getsize raise, which also answers True.
IsMacosSystemFile(t, p) ==
    \/ \E i \in 1..Len(p.dir) : p.dir[i] = <<"__MACOSX">>
    \/ p.name = <<"__MACOSX">>
    \/ StartsDotUnderscore(p.name)
    \/ p.name = <<"", "DS_Store">>
    \/ ~Exists(t, p)
    \/ Exists(t, p) /\ SmallerThanMinSize(NodeAt(t, p).size)

(***************************************************************************)
(* Archives and their decoding.                                            *)
(***************************************************************************)
\* The decoder extract_archive picks from the name of the archive.
Decoder(name) ==
    IF Len(name) >= 2 /\ Last(name) = "zip" THEN "zip"
    ELSE IF EndsWithArchiveSuffix(name) /\ Last(name) # "rar" THEN "tar"
    ELSE IF Len(name) >= 2 /\ Last(name) = "rar" THEN "rar"
    ELSE "none"

\* Whether the decoder raises on the file (the error is caught and logged).
DecodeFails(name, data) ==
    /\ Decoder(name) # "none"
    /\ \/ data.t # "arc"
       \/ data.fmt # Decoder(name)

\* The members the decoder writes below the target directory.
Members(name, data) ==
    IF Decoder(name) = "none" \/ DecodeFails(name, data) THEN {} ELSE data.entries

Place(dir, e) ==
    [dir |-> dir \o e.dir, name |-> e.name, size |-> e.size, data |-> e.data]

\* The tree after extract_archive(archive, dir): members replace the files
\* that are already at their paths.
ExtractArchive(t, dir, name, data) ==
    LET new == {Place(dir, e) : e \in Members(name, data)}
    IN  {n \in t : PathOf(n) \notin Paths(new)} \cup new

(***************************************************************************)
(* os.walk lists a directory before the directories below it; the order    *)
(* inside a directory is the file system's.  The next file of a walk that  *)
(* still has the files todo to yield is any of them with no other one in a *)
(* directory above its own.                                                *)
(***************************************************************************)
WalkNext(todo) ==
    {p \in todo : ~\E q \in todo : q.dir # p.dir /\ IsPrefix(q.dir, p.dir)}

\* process_directory, lines 54-59: the archives below dir_path.
ArchivesUnder(t, dir) ==
    {p \in Paths(Under(t, dir)) : EndsWithArchiveSuffix(p.name)}

\* A check that would find no path in the set.
NeverProcessed(done, p) == FALSE

\* Line 63: file_path in processed_archives.
AlreadyProcessed(done, p) == p \in done

\* An unpacker that would record only the archives that decoded.
ProcessedIfDecoded(done, p, failed) == IF failed THEN done ELSE done \cup {p}

\* Lines 80-81: extract_archive returns whether the archive decoded or not,
\* and the path is added to processed_archives.
Processed(done, p, failed) == done \cup {p}

\* A loop that would not advance: the file stays in the snapshot.
RestStuck(todo, p) == todo

\* Line 61: the for loop goes on to the next file of the snapshot.
Rest(todo, p) == todo \ {p}

ExtractDir(p) == Append(p.dir, ExtractDirName(p.name))

Frame(t, dir) == [todo |-> ArchivesUnder(t, dir)]

Top == stack[Len(stack)]

SetTop(f) == [stack EXCEPT ![Len(stack)] = f]

Observe(field, value) == [hist EXCEPT ![field] = @ \cup {value}]

Seen(t, p) == [path |-> p, size |-> IF Exists(t, p) THEN NodeAt(t, p).size ELSE -1]

\* process_archives_recursive, lines 50 and 93: the first process_directory.
ProcessArchivesRecursive ==
    /\ pc = "unpack_call"
    /\ processed_archives' = {}
    /\ stack' = <<Frame(tree, <<>>)>>
    /\ pc' = "unpack"
    /\ hist' = [hist EXCEPT !.stages = @ \cup {"unpack"}]
    /\ UNCHANGED <<tasks, temp, tree, outdir, taskdirs, cur, mode, exc,
                   downloaded, walk, converted_files, counts>>
    /\ UNCHANGED <<posted, answer>>

\* Lines 61-72: the next archive of the snapshot is skipped.
SkipArchive ==
    /\ pc = "unpack"
    /\ \E p \in WalkNext(Top.todo) :
        /\ \/ AlreadyProcessed(processed_archives, p)
           \/ IsMacosSystemFile(tree, p)
           \/ ~Exists(tree, p)
        /\ stack' = SetTop([todo |-> Rest(Top.todo, p)])
        /\ hist' = IF AlreadyProcessed(processed_archives, p)
                   THEN Observe("again", p)
                   ELSE IF IsMacosSystemFile(tree, p)
                   THEN Observe("skipped", Seen(tree, p))
                   ELSE hist
    /\ UNCHANGED <<tasks, temp, tree, outdir, taskdirs, pc, cur, mode, exc,
                   downloaded, processed_archives, walk, converted_files, counts>>
    /\ UNCHANGED <<posted, answer>>

\* Lines 74-91: the next archive of the snapshot is expanded, recorded,
\* removed (best effort), and process_directory is called on its target.
\* os.makedirs may raise; the exception leaves process_archives_recursive.
ExpandArchive ==
    /\ pc = "unpack"
    /\ \E p \in WalkNext(Top.todo), made \in BOOLEAN, removed \in BOOLEAN :
        /\ ~AlreadyProcessed(processed_archives, p)
        /\ ~IsMacosSystemFile(tree, p)
        /\ Exists(tree, p)
        /\ IF ~made
           THEN /\ removed
                /\ exc' = "makedirs"
                /\ pc' = "cleanup"
                /\ stack' = <<>>
                /\ UNCHANGED <<tree, processed_archives, hist>>
           ELSE LET node == NodeAt(tree, p)
                    t1 == ExtractArchive(tree, ExtractDir(p), p.name, node.data)
                    t2 == IF removed THEN t1 \ {node} ELSE t1
                IN  /\ tree' = t2
                    /\ processed_archives' =
                          Processed(processed_archives, p,
                                    DecodeFails(p.name, node.data))
                    /\ stack' = Append(SetTop([todo |-> Rest(Top.todo, p)]),
                                       Frame(t2, ExtractDir(p)))
                    /\ hist' = Observe("expanded",
                                        [path |-> p, size |-> node.size,
                                         failed |-> DecodeFails(p.name, node.data)])
                    /\ UNCHANGED <<pc, exc>>
    /\ UNCHANGED <<tasks, temp, outdir, taskdirs, cur, mode, downloaded,
                   walk, converted_files, counts>>
    /\ UNCHANGED <<posted, answer>>

\* The snapshot of the innermost process_directory is exhausted: it returns,
\* the outermost one to main (line 336).
ReturnFromDirectory ==
    /\ pc = "unpack"
    /\ Top.todo = {}
    /\ stack' = Front(stack)
    /\ pc' = IF Len(stack) = 1 THEN "make_output" ELSE "unpack"
    /\ UNCHANGED <<tasks, temp, tree, outdir, taskdirs, cur, mode, exc,
                   downloaded, processed_archives, walk, converted_files,
                   counts, hist>>
    /\ UNCHANGED <<posted, answer>>

(***************************************************************************)
(* Conversion.  What a converter does with a file is decided by the file:  *)
(* its data says whether it is sound ("good"), sound but with nothing in   *)
(* it ("blank": a PDF of zero pages, a text of white space), unreadable    *)
(* ("corrupt"), or a document on which the office converter exits 0        *)
(* without writing anything ("silent").  An artifact's content names the   *)
(* source file it was made from and how many pages (text: blocks) it has.  *)
(***************************************************************************)
DocExtensions == {"pdf", "doc", "docx", "txt", "rtf", "odt"}

ImageExtensions == {"jpg", "jpeg", "png", "gif", "bmp", "tiff", "tif", "webp"}

AllExtensions == DocExtensions \cup ImageExtensions

Eligible(name) == Suffix(name) \in AllExtensions

Quality(data) == IF data.t = "doc" THEN data.q ELSE "corrupt"

Units(data) == IF Quality(data) = "good" THEN data.pages ELSE 0

InTree(p) == [where |-> "tree", path |-> p]

InOutput(name) == [where |-> "out", name |-> name]

\* os.path.join(output_dir, f"{Path(file_path).stem}.pdf") and ....txt
OutputName(name, ext) == Append(Stem(name), ext)

Raised == [kind |-> "raise"]

Returned(ref) == [kind |-> "return", ref |-> ref, writes |-> FALSE]

Written(ref, content) ==
    [kind |-> "return", ref |-> ref, writes |-> TRUE, content |-> content]

\* convert_to_pdf(file_path, output_dir) on the file at path p with this data.
ConvertToPdf(p, data) ==
    LET ext == Suffix(p.name)
        target == InOutput(OutputName(p.name, "pdf"))
    IN  IF ext = "pdf" THEN Returned(InTree(p))
        ELSE IF ext \in ImageExtensions
        THEN IF Quality(data) = "corrupt" THEN Raised
             ELSE Written(target, [src |-> p, n |-> 1, ok |-> TRUE])
        ELSE IF ext \in {"doc", "docx", "txt", "rtf", "odt"}
        THEN IF Quality(data) = "corrupt" THEN Raised
             ELSE IF Quality(data) = "silent" THEN Returned(target)
             ELSE Written(target, [src |-> p,
                                   n |-> IF Units(data) = 0 THEN 1 ELSE Units(data),
                                   ok |-> TRUE])
        ELSE Raised

\* convert_to_text(file_path, output_dir).
ConvertToText(p, data) ==
    LET ext == Suffix(p.name)
        target == InOutput(OutputName(p.name, "txt"))
    IN  IF ext = "txt" THEN Returned(InTree(p))
        ELSE IF ext \in ImageExtensions \cup {"doc", "docx", "pdf"}
        THEN IF Quality(data) \in {"corrupt", "silent"} THEN Raised
             ELSE Written(target, [src |-> p, n |-> Units(data), ok |-> TRUE])
        ELSE Raised

Convert(m, p, data) == IF m = "pdf" THEN ConvertToPdf(p, data) ELSE ConvertToText(p, data)

\* os.path.exists(converted_path)
ArtifactExists(t, out, ref) ==
    IF ref.where = "tree" THEN Exists(t, ref.path) ELSE ref.name \in DOMAIN out.files

\* What opening and reading the artifact gives.
ArtifactContent(t, out, ref) ==
    IF ref.where = "tree"
    THEN LET data == NodeAt(t, ref.path).data
         IN  [src |-> ref.path, n |-> Units(data),
              ok |-> Quality(data) \in {"good", "blank"}]
    ELSE out.files[ref.name]

\* os.path.basename of the artifact.
Basename(ref) == IF ref.where = "tree" THEN ref.path.name ELSE ref.name

\* Line 272: the PDF opens and has pages; line 299: the text is not blank.
Valid(content) == content.ok /\ content.n > 0

Part(ref, content) == [name |-> Basename(ref), src |-> content.src, n |-> content.n]

RECURSIVE MergeNewestFirst(_, _, _)
\* A merge that would put each artifact before the ones already merged.
MergeNewestFirst(t, out, refs) ==
    IF refs = <<>> THEN <<>>
    ELSE LET c == ArtifactContent(t, out, Head(refs))
         IN  MergeNewestFirst(t, out, Tail(refs))
             \o (IF Valid(c) THEN <<Part(Head(refs), c)>> ELSE <<>>)

RECURSIVE MergeUntilInvalid(_, _, _)
\* A merge that the first invalid artifact would end.
MergeUntilInvalid(t, out, refs) ==
    IF refs = <<>> THEN <<>>
    ELSE LET c == ArtifactContent(t, out, Head(refs))
         IN  IF Valid(c)
             THEN <<Part(Head(refs), c)>> \o MergeUntilInvalid(t, out, Tail(refs))
             ELSE <<>>

RECURSIVE Merge(_, _, _)
\* Lines 267-279 and 295-304: the valid artifacts of the list, in its order.
Merge(t, out, refs) ==
    IF refs = <<>> THEN <<>>
    ELSE LET c == ArtifactContent(t, out, Head(refs))
         IN  (IF Valid(c) THEN <<Part(Head(refs), c)>> ELSE <<>>)
             \o Merge(t, out, Tail(refs))

FinalName(m) == IF m = "pdf" THEN <<"final", "pdf">> ELSE <<"final", "txt">>

FinalFile(parts, whole) ==
    [final |-> TRUE, parts |-> parts, whole |-> whole, writer |-> cur]

Dir(files) == [exists |-> TRUE, files |-> files]

Put(out, name, content) == Dir((name :> content) @@ out.files)

\* main, lines 339-340: os.makedirs(output_dir, exist_ok=True).
MakeOutputDir ==
    /\ pc = "make_output"
    /\ outdir' = IF outdir.exists THEN outdir ELSE Dir(<<>>)
    /\ pc' = "organize_call"
    /\ hist' = Uses({OutputDir})
    /\ UNCHANGED <<tasks, temp, tree, taskdirs, cur, mode, exc, downloaded,
                   processed_archives, stack, walk, converted_files, counts>>
    /\ UNCHANGED <<posted, answer>>

\* organize_documents, lines 217-229: the walk of the extracted tree starts.
OrganizeDocuments ==
    /\ pc = "organize_call"
    /\ walk' = Paths(tree)
    /\ converted_files' = <<>>
    /\ counts' = [processed |-> 0, failed |-> 0]
    /\ pc' = "convert"
    /\ hist' = [hist EXCEPT !.stages = @ \cup {"normalize"}]
    /\ UNCHANGED <<tasks, temp, tree, outdir, taskdirs, cur, mode, exc,
                   downloaded, processed_archives, stack>>
    /\ UNCHANGED <<posted, answer>>

\* Lines 233-238: a system file, or a file with no convertible extension.
SkipFile ==
    /\ pc = "convert"
    /\ \E p \in WalkNext(walk) :
        /\ IsMacosSystemFile(tree, p) \/ ~Eligible(p.name)
        /\ walk' = walk \ {p}
        /\ hist' = IF IsMacosSystemFile(tree, p)
                   THEN Observe("skipped", Seen(tree, p))
                   ELSE hist
    /\ UNCHANGED <<tasks, temp, tree, outdir, taskdirs, pc, cur, mode, exc,
                   downloaded, processed_archives, stack, converted_files, counts>>
    /\ UNCHANGED <<posted, answer>>

\* A walk that a failed file would end: the files after it are dropped.
AbortOnFailure(todo, p, done) == IF done THEN todo \ {p} ELSE {}

\* Lines 229-230 and 255-257: the failure of a file is caught inside the
\* loop; the walk goes on to the next file whether the file failed or not.
AfterFile(todo, p, done) == todo \ {p}

\* Lines 238-257: one eligible file is converted, or fails.
ConvertFile ==
    /\ pc = "convert"
    /\ \E p \in WalkNext(walk) :
        /\ ~IsMacosSystemFile(tree, p)
        /\ Eligible(p.name)
        /\ LET res == Convert(mode, p, NodeAt(tree, p).data)
               out == IF res.kind = "return" /\ res.writes
                      THEN Put(outdir, res.ref.name, res.content)
                      ELSE outdir
               done == res.kind = "return" /\ ArtifactExists(tree, out, res.ref)
           IN  /\ walk' = AfterFile(walk, p, done)
               /\ outdir' = out
               /\ converted_files' = IF done THEN Append(converted_files, res.ref)
                                     ELSE converted_files
               /\ counts' = [processed |-> counts.processed + 1,
                             failed |-> counts.failed + (IF done THEN 0 ELSE 1)]
               /\ hist' = [hist EXCEPT
                             !.attempted = Append(@, Seen(tree, p)),
                             !.sources = IF done THEN Append(@, p) ELSE @]
    /\ UNCHANGED <<tasks, temp, tree, taskdirs, pc, cur, mode, exc, downloaded,
                   processed_archives, stack>>
    /\ UNCHANGED <<posted, answer>>

\* How writing the final file may end: "none" (nothing converted, nothing is
\* written), "ok", a write that raises before the file is opened ("nofile") or
\* after ("partial"), and in text mode an open() that raises ("raise").
WriteOutcomes ==
    IF converted_files = <<>> THEN {"none"}
    ELSE IF mode = "pdf" THEN {"ok", "nofile", "partial"}
    ELSE {"ok", "raise"}

\* A loop that could be left with files still to yield.
WalkLeftAnywhere(todo) == TRUE

\* Line 229: the for loop over os.walk ends when the walk has no file left.
WalkOver(todo) == todo = {}

\* Lines 259-308: the walk is over; the artifacts are validated and merged.
Aggregate ==
    /\ pc = "convert"
    /\ WalkOver(walk)
    /\ \E w \in WriteOutcomes :
        LET parts == Merge(tree, outdir, converted_files)
        IN  /\ outdir' = IF w = "ok" THEN Put(outdir, FinalName(mode), FinalFile(parts, TRUE))
                         ELSE IF w = "partial"
                         THEN Put(outdir, FinalName(mode), FinalFile(<<>>, FALSE))
                         ELSE outdir
            /\ exc' = IF w = "raise" THEN "open" ELSE exc
            /\ hist' = [hist EXCEPT !.stages = @ \cup {"aggregate"},
                                    !.wrote = w,
                                    !.merged = Len(parts)]
    /\ pc' = "cleanup"
    /\ UNCHANGED <<tasks, temp, tree, taskdirs, cur, mode, downloaded,
                   processed_archives, stack, walk, converted_files, counts>>
    /\ UNCHANGED <<posted, answer>>

(***************************************************************************)
(* The inputs: files an archive may hold.                                  *)
(***************************************************************************)
File(dir, name, size, data) == [dir |-> dir, name |-> name, size |-> size, data |-> data]

Doc(q, pages) == [t |-> "doc", q |-> q, pages |-> pages]

Arc(fmt, entries) == [t |-> "arc", fmt |-> fmt, entries |-> entries]

Inner == Arc("zip", {File(<<>>, <<"e", "jpg">>, 200, Doc("good", 1))})

Nested ==
    Arc("zip", {File(<<>>, <<"d", "docx">>, 200, Doc("good", 1)),
                File(<<>>, <<"m", "zip">>, 200, Inner)})

DocPool ==
    {File(<<>>, <<"a", "jpg">>, 200, Doc("good", 1)),
     File(<<>>, <<"a", "jpg">>, 200, Doc("corrupt", 1)),
     File(<<>>, <<"a", "png">>, 200, Doc("good", 1)),
     File(<<>>, <<"b", "pdf">>, 200, Doc("good", 2)),
     File(<<>>, <<"b", "pdf">>, 200, Doc("blank", 0)),
     File(<<>>, <<"b", "pdf">>, 200, Doc("corrupt", 1)),
     File(<<>>, <<"b", "PDF">>, 100, Doc("good", 1)),
     File(<<>>, <<"c", "txt">>, 200, Doc("good", 1)),
     File(<<>>, <<"c", "txt">>, 200, Doc("blank", 0)),
     File(<<>>, <<"r", "rtf">>, 200, Doc("good", 1)),
     File(<<>>, <<"d", "docx">>, 200, Doc("silent", 1)),
     File(<<>>, <<"x", "bin">>, 200, Doc("good", 1)),
     File(<<>>, <<"t", "pdf">>, 99, Doc("good", 1)),
     File(<<>>, <<"", "DS_Store">>, 200, Doc("good", 1)),
     File(<<>>, <<"", "_a", "pdf">>, 200, Doc("good", 1)),
     File(<< <<"__MACOSX">> >>, <<"b", "pdf">>, 200, Doc("good", 1))}

ArchivePool ==
    {File(<<>>, <<"n", "zip">>, 200, Nested),
     File(<<>>, <<"k", "zip">>, 200,
          Arc("zip", {File(<<>>, <<"n", "zip">>, 200, Nested),
                      File(<<>>, <<"c", "zip">>, 200, Doc("good", 1))})),
     File(<<>>, <<"n", "rar">>, 200,
          Arc("rar", {File(<<>>, <<"d", "docx">>, 200, Doc("good", 2)),
                      File(<<>>, <<"m", "zip">>, 200, Inner)})),
     File(<< <<"n", "_extracted">> >>, <<"m", "zip">>, 200, Inner),
     File(<<>>, <<"w", "tar", "gz">>, 200,
          Arc("tar", {File(<<>>, <<"q", "pdf">>, 200, Doc("good", 2)),
                      File(<<>>, <<"b", "pdf">>, 200, Doc("blank", 0))})),
     File(<<>>, <<"N", "ZIP">>, 200, Nested),
     File(<<>>, <<"s", "zip">>, 99, Nested),
     File(<<>>, <<"", "_a", "zip">>, 200, Nested),
     File(<< <<"__MACOSX">> >>, <<"n", "zip">>, 200, Nested)}

RECURSIVE UpTo(_, _)
\* The sets of at most k files of the pool, no two at one path.
UpTo(pool, k) ==
    IF k = 0 THEN {{}}
    ELSE LET less == UpTo(pool, k - 1)
         IN  less \cup {t \cup {x} : <<t, x>> \in
                          {y \in less \X pool : PathOf(y[2]) \notin Paths(y[1])}}

Trees(pool) == UpTo(pool, MaxEntries)


(***************************************************************************)
(* TreeSpec: process_archives_recursive and organize_documents, as main     *)
(* calls them (lines 336-344), on the trees of documents and archives.     *)
(***************************************************************************)
TreeInitOver(pool) ==
    /\ tasks = [t \in 1..MaxRuns |-> IF t = 1 THEN Processing ELSE NoTask]
    /\ temp = TRUE
    /\ tree \in Trees(pool)
    /\ outdir = NoDir
    /\ taskdirs = [t \in 1..MaxRuns |-> NoDir]
    /\ pc = "unpack_call"
    /\ cur = 1
    /\ mode \in {"pdf", "txt"}
    /\ exc = NoExc
    /\ downloaded = NoFile
    /\ processed_archives = {}
    /\ stack = <<>>
    /\ walk = {}
    /\ converted_files = <<>>
    /\ counts = [processed |-> 0, failed |-> 0]
    /\ hist = NoHist
    /\ posted = 1
    /\ answer = NoAnswer

\* The archives of the pool that the two stages are run on together: one
\* with a nested archive, one of another format, and the system artifacts.
TreeArchives ==
    {n \in ArchivePool : n.name \in {<<"n", "zip">>, <<"w", "tar", "gz">>,
                                      <<"s", "zip">>, <<"", "_a", "zip">>}}

TreeInit == TreeInitOver(DocPool \cup TreeArchives)

TreeNext ==
    \/ ProcessArchivesRecursive
    \/ SkipArchive
    \/ ExpandArchive
    \/ ReturnFromDirectory
    \/ MakeOutputDir
    \/ OrganizeDocuments
    \/ SkipFile
    \/ ConvertFile
    \/ Aggregate

TreeSpec == TreeInit /\ [][TreeNext]_vars /\ WF_vars(TreeNext)

(***************************************************************************)
(* UnpackSpec: process_archives_recursive alone (line 336), from its call  *)
(* to its return or to the exception that leaves it, on every tree of the  *)
(* archive pool.                                                           *)
(***************************************************************************)
UnpackInit == TreeInitOver(ArchivePool)

UnpackNext ==
    \/ ProcessArchivesRecursive
    \/ SkipArchive
    \/ ExpandArchive
    \/ ReturnFromDirectory

UnpackSpec == UnpackInit /\ [][UnpackNext]_vars /\ WF_vars(UnpackNext)

(***************************************************************************)
(* The run: extract_task and main around the two stages above.             *)
(***************************************************************************)
RootPool ==
    {File(<<>>, <<"a", "jpg">>, 200, Doc("good", 1)),
     File(<<>>, <<"c", "txt">>, 200, Doc("blank", 0)),
     File(<<>>, <<"n", "zip">>, 200,
          Arc("zip", {File(<<>>, <<"d", "docx">>, 200, Doc("good", 1)),
                      File(<<>>, <<"s", "zip">>, 99, Inner)}))}

\* What the URL may deliver: a zip archive of files of the pool, or a body
\* that is no zip archive.
Bodies == {Arc("zip", t) : t \in Trees(RootPool)} \cup {Doc("good", 1)}

DownloadedZip == <<"downloaded", "zip">>

\* extract_documents, lines 86-98: POST /extract draws a task id, schedules
\* extract_task with it as a background task and returns the id. The record
\* tasks[task_id] is not written here. Task ids are numbered in the order
\* they are issued; handlers run only while no extract_task holds the event
\* loop (extract_task never awaits).
ExtractDocuments ==
    /\ pc = "idle"
    /\ posted < MaxRuns
    /\ posted' = posted + 1
    /\ answer' = NoAnswer
    /\ UNCHANGED <<tasks, temp, tree, outdir, taskdirs, pc, cur, mode, exc,
                   downloaded, processed_archives, stack, walk, converted_files,
                   counts, hist>>

\* get_task_status, lines 100-112: GET /status/{task_id} for an id that
\* POST /extract has returned: 404 "Task not found" when tasks holds no
\* record under the id, the record's status otherwise.
GetTaskStatus ==
    /\ pc = "idle"
    /\ \E t \in 1..posted :
        answer' = IF tasks[t] = NoTask
                  THEN [code |-> 404, task_id |-> t, detail |-> "Task not found"]
                  ELSE [code |-> 200, task_id |-> t, status |-> tasks[t].status]
    /\ UNCHANGED <<tasks, temp, tree, outdir, taskdirs, pc, cur, mode, exc,
                   downloaded, processed_archives, stack, walk, converted_files,
                   counts, hist, posted>>

\* extract_task, lines 42-53: the background task of the oldest id not yet
\* started begins; the record is created and main is called.
StartTask ==
    /\ pc = "idle"
    /\ cur < MaxRuns
    /\ cur < posted
    /\ answer' = NoAnswer
    /\ UNCHANGED posted
    /\ \E m \in {"pdf", "txt"} :
        /\ mode' = m
        /\ cur' = cur + 1
        /\ tasks' = [tasks EXCEPT ![cur + 1] = Processing]
    /\ pc' = "main"
    /\ UNCHANGED <<temp, tree, outdir, taskdirs, exc, downloaded,
                   processed_archives, stack, walk, converted_files, counts, hist>>

\* main, lines 313-317: the scratch directories are made, outside the try.
MakeTempDirs ==
    /\ pc = "main"
    /\ temp' = TRUE
    /\ pc' = "download"
    /\ hist' = Uses({TempDir, ExtractRootDir})
    /\ UNCHANGED <<tasks, tree, outdir, taskdirs, cur, mode, exc, downloaded,
                   processed_archives, stack, walk, converted_files, counts>>
    /\ UNCHANGED <<posted, answer>>

\* Lines 321-324: download_file raises, or leaves the body in downloaded.zip.
Download ==
    /\ pc = "download"
    /\ \E ok \in BOOLEAN, body \in Bodies :
        IF ok
        THEN /\ downloaded' = body
             /\ pc' = "extract_root"
             /\ hist' = [hist EXCEPT !.stages = @ \cup {"download"}]
             /\ exc' = exc
        ELSE /\ body = Doc("good", 1)
             /\ downloaded' = downloaded
             /\ pc' = "cleanup"
             /\ hist' = [hist EXCEPT !.stages = @ \cup {"download"},
                                     !.download_failed = TRUE]
             /\ exc' = "download"
    /\ UNCHANGED <<tasks, temp, tree, outdir, taskdirs, cur, mode,
                   processed_archives, stack, walk, converted_files, counts>>
    /\ UNCHANGED <<posted, answer>>

\* Lines 326-332: extract_archive on the downloaded file (a decode error is
\* caught inside it), then os.remove of the downloaded file.
ExtractRoot ==
    /\ pc = "extract_root"
    /\ tree' = ExtractArchive(tree, <<>>, DownloadedZip, downloaded)
    /\ downloaded' = NoFile
    /\ pc' = "unpack_call"
    /\ hist' = [hist EXCEPT !.stages = @ \cup {"extract_root"},
                            !.root_failed = DecodeFails(DownloadedZip, downloaded)]
    /\ UNCHANGED <<tasks, temp, outdir, taskdirs, cur, mode, exc,
                   processed_archives, stack, walk, converted_files, counts>>
    /\ UNCHANGED <<posted, answer>>

\* Lines 351-355, the finally block: shutil.rmtree(temp_dir) removes the
\* scratch tree, or raises at the first entry it cannot remove and leaves the
\* rest; its exception replaces the one main was unwinding with.  What a
\* failed rmtree leaves is taken to be all the files (it failed at the first
\* one) or none (it failed at a directory).
Leftovers(t) == {t, {}}

Cleanup ==
    /\ pc = "cleanup"
    /\ \E ok \in BOOLEAN, kept \in Leftovers(tree) :
        IF ~temp THEN /\ ok /\ kept = tree
                      /\ UNCHANGED <<temp, tree, exc>>
        ELSE IF ok THEN /\ kept = {}
                        /\ temp' = FALSE
                        /\ tree' = {}
                        /\ exc' = exc
        ELSE /\ temp' = TRUE
             /\ tree' = kept
             /\ exc' = "rmtree"
    /\ pc' = "after_main"
    /\ hist' = [Uses({TempDir}) EXCEPT !.stages = @ \cup {"cleanup"}]
    /\ downloaded' = NoFile
    /\ processed_archives' = {}
    /\ stack' = <<>>
    /\ walk' = {}
    /\ converted_files' = <<>>
    /\ counts' = [processed |-> 0, failed |-> 0]
    /\ UNCHANGED <<tasks, outdir, taskdirs, cur, mode>>
    /\ UNCHANGED <<posted, answer>>

FinalPath(t, m) == <<TaskOutputDir(t), FinalName(m)>>

\* What the endpoints read of a task's output directory: its final files,
\* each known by the run that wrote it and by whether it was written whole.
Finals(dir) ==
    IF dir.exists
    THEN Dir([n \in DOMAIN dir.files \cap {FinalName("pdf"), FinalName("txt")}
                |-> [final |-> TRUE, whole |-> dir.files[n].whole,
                     writer |-> dir.files[n].writer]])
    ELSE NoDir

\* A handler that would leave the record as it was.
LeftProcessing(e) == Processing

\* Lines 79-84: the record extract_task writes when main raised.
FailedRecord(e) ==
    [status |-> "failed", message |-> Message("Extraction failed", e),
     file_path |-> None]

\* extract_task, lines 55-84: main has returned or raised.
FinishTask ==
    /\ pc = "after_main"
    /\ IF exc = NoExc
       THEN LET moved == IF outdir.exists THEN outdir ELSE taskdirs[cur]
                found == moved.exists /\ FinalName(mode) \in DOMAIN moved.files
            IN  /\ taskdirs' = [taskdirs EXCEPT ![cur] = Finals(moved)]
                /\ outdir' = NoDir
                /\ tasks' = [tasks EXCEPT ![cur] =
                      IF found
                      THEN [status |-> "completed",
                            message |-> Message("Extraction completed successfully", ""),
                            file_path |-> FinalPath(cur, mode)]
                      ELSE [status |-> "failed",
                            message |-> Message("Final file not found", ""),
                            file_path |-> None]]
                /\ hist' = Uses({OutputDir, TaskOutputDir(cur)})
       ELSE /\ tasks' = [tasks EXCEPT ![cur] = FailedRecord(exc)]
            /\ UNCHANGED <<outdir, taskdirs, hist>>
    /\ pc' = "done"
    /\ UNCHANGED <<temp, tree, cur, mode, exc, downloaded, processed_archives,
                   stack, walk, converted_files, counts>>
    /\ UNCHANGED <<posted, answer>>

\* extract_task returns: nothing of the run is left but the task record, the
\* directories and their files.
ReturnFromTask ==
    /\ pc = "done"
    /\ pc' = "idle"
    /\ mode' = "pdf"
    /\ exc' = NoExc
    /\ hist' = [NoHist EXCEPT !.used = hist.used]
    /\ UNCHANGED <<tasks, temp, tree, outdir, taskdirs, cur, downloaded,
                   processed_archives, stack, walk, converted_files, counts>>
    /\ UNCHANGED <<posted, answer>>

Init ==
    /\ tasks = [t \in 1..MaxRuns |-> NoTask]
    /\ temp = FALSE
    /\ tree = {}
    /\ outdir = NoDir
    /\ taskdirs = [t \in 1..MaxRuns |-> NoDir]
    /\ pc = "idle"
    /\ cur = 0
    /\ mode = "pdf"
    /\ exc = NoExc
    /\ downloaded = NoFile
    /\ processed_archives = {}
    /\ stack = <<>>
    /\ walk = {}
    /\ converted_files = <<>>
    /\ counts = [processed |-> 0, failed |-> 0]
    /\ hist = NoHist
    /\ posted = 0
    /\ answer = NoAnswer

Next ==
    \/ ExtractDocuments
    \/ GetTaskStatus
    \/ StartTask
    \/ MakeTempDirs
    \/ Download
    \/ ExtractRoot
    \/ TreeNext
    \/ Cleanup
    \/ FinishTask
    \/ ReturnFromTask

Spec == Init /\ [][Next]_vars /\ WF_vars(Next)

(***************************************************************************)
(* Properties.                                                             *)
(***************************************************************************)
Range(f) == {f[i] : i \in DOMAIN f}

Unpacking == pc \in {"unpack_call", "unpack"}

\* C1: on every finite archive tree (copies of one archive under other
\* names, archives that do not decode and archives whose removal fails
\* included) process_archives_recursive terminates: the run leaves the
\* unpacker, no expansion pending, after finitely many expansions.
UnpackTerminates == <>(~Unpacking)

\* The unpacker has returned after expanding the two copies of n.zip, the
\* archive in k.zip that does not decode, and an archive it could not remove.
UnpackTerminatesWitness ==
    /\ pc = "make_output"
    /\ \E e \in hist.expanded : e.failed
    /\ \E e \in hist.expanded : Exists(tree, e.path)
    /\ \E e, f \in hist.expanded :
        e.path.name = <<"n", "zip">> /\ f.path.name = <<"n", "zip">> /\ e # f

\* C2: after any run of main, normal or exceptional, the scratch directory
\* temp_downloads and its extracted subdirectory do not exist.
ScratchRemoved == pc = "after_main" => ~temp

FinalExists == outdir.exists /\ FinalName(mode) \in DOMAIN outdir.files

FinalParts == outdir.files[FinalName(mode)].parts

\* C3: when every produced artifact passes validation (and the final file is
\* written), the final file holds the content of exactly the N-K files whose
\* conversion succeeded, each exactly once.
NoDataLoss ==
    (pc = "cleanup" /\ hist.wrote = "ok" /\ hist.merged = Len(converted_files))
    => /\ Len(FinalParts) = counts.processed - counts.failed
       /\ \A i \in 1..Len(hist.sources) :
            Cardinality({k \in 1..Len(FinalParts) :
                            FinalParts[k].src = hist.sources[i]}) = 1

\* C4: after organize_documents (whose write of the final file, if it tried
\* one, did not fail), the final file exists if and only if at least one
\* converted artifact passed validation.
FinalIffValidated ==
    (pc = "cleanup" /\ hist.wrote \in {"ok", "none"})
    => (FinalExists <=> hist.merged >= 1)

Record == tasks[cur]

\* C5: a run whose unpacked tree holds no convertible file ends failed, with
\* the message of the empty outcome, and writes no final file.
EmptyInputFails ==
    (pc = "done" /\ "aggregate" \in hist.stages /\ hist.attempted = <<>>)
    => /\ Record.status = "failed"
       /\ Record.message.text = "Final file not found"
       /\ hist.wrote = "none"

\* The positions of converted_files whose artifact is valid, and the k-th.
ValidAt ==
    {i \in 1..Len(converted_files) :
        Valid(ArtifactContent(tree, outdir, converted_files[i]))}

Kth(S, k) == CHOOSE i \in S : Cardinality({j \in S : j < i}) = k - 1

Position(seq, x) == CHOOSE i \in 1..Len(seq) : seq[i] = x

\* C6: in pdf mode the final file is the valid artifacts one after the other,
\* in the order of converted_files, which is the order the traversal
\* discovered their source files in: nothing else, nothing twice, nothing
\* out of order, all the pages of each.
MergeOrder ==
    (pc = "cleanup" /\ mode = "pdf" /\ hist.wrote = "ok")
    => /\ Len(FinalParts) = Cardinality(ValidAt)
       /\ \A k \in 1..Len(FinalParts) :
            LET ref == converted_files[Kth(ValidAt, k)]
                c == ArtifactContent(tree, outdir, ref)
            IN  FinalParts[k] = [name |-> Basename(ref), src |-> c.src, n |-> c.n]
       /\ \A i, j \in 1..Len(hist.sources) :
            i < j => Position([x \in DOMAIN hist.attempted |-> hist.attempted[x].path],
                              hist.sources[i])
                     < Position([x \in DOMAIN hist.attempted |-> hist.attempted[x].path],
                                hist.sources[j])

\* Three artifacts in the list, the second one invalid and left out, the
\* valid ones of different source files merged around it, one page and then
\* two pages.
MergeOrderWitness ==
    /\ pc = "cleanup" /\ mode = "pdf" /\ hist.wrote = "ok"
    /\ Len(converted_files) = 3
    /\ ValidAt = {1, 3}
    /\ Len(FinalParts) = 2
    /\ FinalParts[1].src # FinalParts[2].src
    /\ FinalParts[1].n = 1 /\ FinalParts[2].n = 2

IsSystemArtifact(e) ==
    \/ e.size < 100
    \/ e.path.name = <<"", "DS_Store">>
    \/ StartsDotUnderscore(e.path.name)
    \/ \E i \in 1..Len(e.path.dir) : e.path.dir[i] = <<"__MACOSX">>

\* C7: no file smaller than 100 bytes, named .DS_Store, named ._*, or under
\* a __MACOSX directory is passed to the expander by the unpacker or to a
\* converter, whatever its extension.
SystemFilesUntouched ==
    /\ \A e \in hist.expanded : ~IsSystemArtifact(e)
    /\ \A e \in Range(hist.attempted) : ~IsSystemArtifact(e)

\* The expander and a converter have run, and a file of 99 bytes with an
\* archive's name was left alone.
SystemFilesUntouchedWitness ==
    /\ pc = "cleanup"
    /\ hist.expanded # {}
    /\ hist.attempted # <<>>
    /\ \E e \in hist.skipped : e.size = 99 /\ EndsWithArchiveSuffix(e.path.name)

\* C8: two runs with different task ids never use the same acquisition,
\* extraction or output directory.
DirsNamespaced ==
    \A t, u \in 1..MaxRuns : t # u => hist.used[t] \cap hist.used[u] = {}

\* C9: the run is recorded completed if and only if its aggregation produced
\* an output (something validated and the final file written) and the final
\* file is at its path in the run's output directory; otherwise it is
\* recorded failed, with no file_path.
CompletedIffOutput ==
    pc = "done" =>
        LET produced ==
                /\ exc = NoExc
                /\ hist.wrote = "ok" /\ hist.merged >= 1
                /\ taskdirs[cur].exists
                /\ FinalName(mode) \in DOMAIN taskdirs[cur].files
        IN  /\ Record.status = "completed" <=> produced
            /\ ~produced => Record.status = "failed" /\ Record.file_path = None

\* C10: a failed download and a failed extraction of the downloaded archive
\* are fatal: no later stage runs, cleanup runs, and the run is recorded
\* failed with the message of the error.
RootFailureIsFatal ==
    (hist.download_failed \/ hist.root_failed)
    => /\ hist.stages \cap {"unpack", "normalize", "aggregate"} = {}
       /\ pc = "done" => /\ "cleanup" \in hist.stages
                         /\ Record.status = "failed"
                         /\ Record.message.text = "Extraction failed"

EligibleFiles == {p \in Paths(tree) : ~IsMacosSystemFile(tree, p) /\ Eligible(p.name)}

AttemptedPaths == {hist.attempted[i].path : i \in DOMAIN hist.attempted}

\* C11: in normalization a file that fails (its converter raises, the office
\* converter exits non-zero, the artifact is missing, or its extension is not
\* in the mode's table) counts as one failed file and stops nothing: no file
\* is attempted twice, processed counts the attempts, failed the attempts
\* that gave no artifact, no exception is pending, when the stage is left
\* every eligible file has been attempted and aggregation has run, and the
\* stage, once begun, does come to aggregation.
FailureIsPerFile ==
    /\ [](("normalize" \in hist.stages /\ pc \in {"convert", "cleanup"})
          => /\ counts.processed = Len(hist.attempted)
             /\ Cardinality(AttemptedPaths) = Len(hist.attempted)
             /\ counts.failed = Len(hist.attempted) - Len(hist.sources)
             /\ Len(converted_files) = Len(hist.sources)
             /\ pc = "convert" => exc = NoExc
             /\ pc = "cleanup" => /\ "aggregate" \in hist.stages
                                  /\ AttemptedPaths = EligibleFiles)
    /\ (pc = "convert") ~> ("aggregate" \in hist.stages)

\* Text mode: r.rtf, outside the table of the mode, failed first and the
\* file after it was still converted and aggregated.
FailureIsPerFileWitness ==
    /\ pc = "cleanup" /\ mode = "txt" /\ "aggregate" \in hist.stages
    /\ Len(hist.attempted) = 2
    /\ hist.attempted[1].path.name = <<"r", "rtf">>
    /\ counts = [processed |-> 2, failed |-> 1]
    /\ Len(hist.sources) = 1 /\ hist.sources[1] = hist.attempted[2].path

\* The stage of the run the control is in; the aggregation is the step that
\* leaves normalization (4) for cleanup (6).
StageOf(c) ==
    CASE c \in {"idle", "main"} -> 0
      [] c = "download" -> 1
      [] c = "extract_root" -> 2
      [] c \in {"unpack_call", "unpack"} -> 3
      [] c \in {"make_output", "organize_call", "convert"} -> 4
      [] c = "cleanup" -> 6
      [] c \in {"after_main", "done"} -> 7

Gains(stage) == stage \in hist'.stages /\ stage \notin hist.stages

\* C12: a run goes through download, root expansion, recursive unpacking,
\* normalization, aggregation and cleanup in that order and then ends: a
\* file is normalized only after the unpacker has returned, the artifacts are
\* merged only after every eligible file has been attempted and while the
\* artifacts left in the scratch tree are still there, and the scratch tree
\* is touched by cleanup only after aggregation (or on an exception).
StagesInOrder ==
    [][/\ StageOf(pc') >= StageOf(pc) \/ pc' = "idle"
       /\ hist'.attempted # hist.attempted /\ pc = "convert"
          => /\ stack = <<>> /\ {"download", "extract_root", "unpack"} \subseteq hist.stages
             /\ hist.stages \cap {"aggregate", "cleanup"} = {}
             /\ temp
       /\ Gains("aggregate")
          => /\ "normalize" \in hist.stages /\ "cleanup" \notin hist.stages
             /\ AttemptedPaths = EligibleFiles
             /\ temp
             /\ \A i \in 1..Len(converted_files) :
                    ArtifactExists(tree, outdir, converted_files[i])
       /\ Gains("cleanup")
          => \/ exc # NoExc
             \/ {"download", "extract_root", "unpack", "normalize", "aggregate"}
                    \subseteq hist.stages
       /\ (tree' # tree \/ temp' # temp) /\ StageOf(pc) >= 4 => Gains("cleanup")
      ]_vars

\* A run of every stage, about to clean up: an archive was expanded, the
\* final file was written, and an artifact that was read for it is a file of
\* the scratch tree.
StagesInOrderWitness ==
    /\ pc = "cleanup" /\ exc = NoExc /\ cur >= 1
    /\ {"download", "extract_root", "unpack", "normalize", "aggregate"} = hist.stages
    /\ hist.expanded # {}
    /\ hist.wrote = "ok" /\ hist.merged >= 1
    /\ \E i \in 1..Len(converted_files) :
        converted_files[i].where = "tree" /\ Exists(tree, converted_files[i].path)

\* C13: when process_archives_recursive returns, no archive (a file with an
\* archive's extension that is no system artifact) is left under the root:
\* each one, there from the start or produced by an expansion, was expanded.
NoArchiveLeft ==
    pc = "make_output"
    => ~\E p \in Paths(tree) :
            EndsWithArchiveSuffix(p.name) /\ ~IsMacosSystemFile(tree, p)

\* In a step that pushes a process_directory, the archive that was expanded:
\* the one the step took from the snapshot on top.
ExpandedNow == CHOOSE p \in Top.todo : p \notin stack'[Len(stack)].todo

IsExpansion == pc = "unpack" /\ Len(stack') = Len(stack) + 1

\* C14: in one run of process_archives_recursive the expander is never called
\* twice on one path: the path of an expansion is not in processed_archives
\* before it and is in it after, so that a later encounter of the path, in an
\* outer snapshot or a new walk, passes without an expansion.
NoPathExpandedTwice ==
    [][IsExpansion
       => /\ ExpandedNow \notin processed_archives
          /\ processed_archives' = processed_archives \cup {ExpandedNow}
          /\ hist'.again = hist.again
      ]_vars

\* The unpacker has returned; it met an archive again that it had expanded
\* and could not remove, and passed it.
NoPathExpandedTwiceWitness ==
    /\ pc = "make_output"
    /\ \E p \in hist.again :
        /\ Exists(tree, p)
        /\ p \in processed_archives
        /\ \E e \in hist.expanded : e.path = p

\* C15: each time the unpacker expands an archive, its target directory
\* <stem>_extracted is new and empty at the extraction: it holds no file, and
\* no other archive expanded in the run had the same target.
FreshTargets ==
    [][IsExpansion
       => /\ Under(tree, ExtractDir(ExpandedNow)) = {}
          /\ \A e \in hist.expanded :
                e.path # ExpandedNow => ExtractDir(e.path) # ExtractDir(ExpandedNow)
      ]_vars

Pending == UNION {stack[i].todo : i \in 1..Len(stack)}

\* C16: an archive that does not decode, or that cannot be removed, stops
\* nothing in the unpacker: its expansion raises nothing, its path is
\* recorded in processed_archives, the other archives of the snapshot stay
\* to be expanded, and no archive of the tree is ever left out: each is
\* recorded, a system artifact, or still to come in a snapshot.
SoftFailures ==
    /\ [][IsExpansion
          => /\ pc' = "unpack" /\ exc' = NoExc
             /\ ExpandedNow \in processed_archives'
             /\ stack'[Len(stack)].todo = Top.todo \ {ExpandedNow}
         ]_vars
    /\ [](pc \in {"unpack", "make_output"}
          => \A q \in ArchivesUnder(tree, <<>>) :
                \/ q \in processed_archives
                \/ IsMacosSystemFile(tree, q)
                \/ pc = "unpack" /\ q \in Pending)

\* The unpacker has returned: of the snapshot of k.zip's directory, c.zip did
\* not decode and n.zip was expanded all the same, down to its m.zip; an
\* expanded archive could not be removed; all are recorded.
SoftFailuresWitness ==
    /\ pc = "make_output"
    /\ \E e \in hist.expanded : e.failed /\ e.path.name = <<"c", "zip">>
    /\ \E e \in hist.expanded :
        e.path = [dir |-> << <<"k", "_extracted">> >>, name |-> <<"n", "zip">>]
    /\ \E e \in hist.expanded : e.path.name = <<"m", "zip">>
    /\ \E e \in hist.expanded : Exists(tree, e.path)
    /\ \A e \in hist.expanded : e.path \in processed_archives

\* The artifact opens as a PDF and has at least one page.
Opens(ref) ==
    LET c == ArtifactContent(tree, outdir, ref)
    IN  c.ok /\ c.n >= 1

OpenAt == {i \in 1..Len(converted_files) : Opens(converted_files[i])}

\* C17: in pdf mode an artifact that does not open or has no page is left out
\* of the merge and does not end it: nothing is raised, the merged artifacts
\* are exactly the ones that open with a page, as many times as they are in
\* the list, and a valid artifact after an invalid one is merged.
InvalidPdfLeftOut ==
    (pc = "cleanup" /\ mode = "pdf" /\ "aggregate" \in hist.stages)
    => /\ exc = NoExc
       /\ hist.merged = Cardinality(OpenAt)
       /\ hist.wrote = "ok"
          => /\ Len(FinalParts) = Cardinality(OpenAt)
             /\ \A i \in 1..Len(converted_files) :
                   LET ref == converted_files[i]
                   IN  Cardinality({k \in 1..Len(FinalParts) :
                                       FinalParts[k].name = Basename(ref)})
                       = Cardinality({j \in OpenAt :
                                       Basename(converted_files[j]) = Basename(ref)})
             /\ \A k \in 1..Len(FinalParts) : FinalParts[k].n >= 1

\* The first artifact of the list does not open, the second one is valid and
\* is the one merged.
InvalidPdfLeftOutWitness ==
    /\ pc = "cleanup" /\ mode = "pdf" /\ hist.wrote = "ok"
    /\ Len(converted_files) = 2
    /\ ~ArtifactContent(tree, outdir, converted_files[1]).ok
    /\ OpenAt = {2}
    /\ Len(FinalParts) = 1
    /\ FinalParts[1].name = Basename(converted_files[2])

\* C18: in text mode final.txt is one block for each converted artifact
\* whose text is not blank, in the order of discovery; the delimiter line of
\* a block holds the name of the source file the artifact was made from.
TextBlocks ==
    (pc = "cleanup" /\ mode = "txt" /\ hist.wrote = "ok")
    => /\ Len(FinalParts) = Cardinality(OpenAt)
       /\ \A k \in 1..Len(FinalParts) : FinalParts[k].name = FinalParts[k].src.name
       /\ \A j, k \in 1..Len(FinalParts) :
            j < k => Position(hist.sources, FinalParts[j].src)
                     < Position(hist.sources, FinalParts[k].src)

Terminal == {"completed", "failed"}

\* C19: every started extract_task ends with its record terminal, completed
\* or failed, with a message: the record of a task is only ever created as
\* processing and moved once, by its own run, from processing to a terminal
\* status; and when extract_task has returned no exception is left and the
\* records of all the tasks started are terminal.
TerminalStatus ==
    /\ [][\A t \in 1..MaxRuns :
            tasks'[t] # tasks[t]
            => \/ tasks[t] = NoTask /\ tasks'[t] = Processing
               \/ /\ tasks[t].status = "processing" /\ t = cur
                  /\ tasks'[t].status \in Terminal
                  /\ tasks'[t].message.text # ""
         ]_vars
    /\ [](pc = "idle" => /\ exc = NoExc
                         /\ \A t \in 1..cur : tasks[t].status \in Terminal)

\* Two tasks have ended, one completed and one failed on an exception of
\* main; the records are those of their runs.
TerminalStatusWitness ==
    /\ pc = "idle" /\ cur = 2
    /\ tasks[1].status = "failed" /\ tasks[1].message.text = "Extraction failed"
    /\ tasks[2].status = "completed"

\* C20: over runs made one after another, failed ones included, a task that
\* is recorded completed has its file_path on a final file that its own run's
\* aggregation wrote, never on one an earlier run left in
\* extracted_documents.
OwnFinalFile ==
    \A t \in 1..MaxRuns :
        tasks[t].status = "completed"
        => /\ taskdirs[t].exists
           /\ \E m \in {"pdf", "txt"} :
                /\ tasks[t].file_path = FinalPath(t, m)
                /\ FinalName(m) \in DOMAIN taskdirs[t].files
                /\ taskdirs[t].files[FinalName(m)].writer = t

(***************************************************************************)
(* C21: once POST /extract has returned a task id, every later             *)
(* GET /status/{task_id} finds a record under that id and never answers    *)
(* "Task not found", whether or not the background task that creates the   *)
(* record has started.                                                     *)
(***************************************************************************)
StatusFindsRecord ==
    answer # NoAnswer => answer.task_id \in 1..posted /\ answer.code = 200

====
